---- MODULE Spec2Model ----
(***************************************************************************)
(* Building-info pipeline of the CitySnap gateway.                         *)
(*                                                                         *)
(* One request is followed from its arrival to its response or error,      *)
(* through either of the two implementations of the pipeline:              *)
(*   impl = "handler"  routers/buildings.py  building_info                 *)
(*   impl = "orch"     services/building_info.py                           *)
(*                     BuildingInfoOrchestrator.build with                 *)
(*                     services/llm_enricher.py LlmBuildingInfoEnricher    *)
(* The collaborators (geocoding, building data, LLM provider) answer       *)
(* nondeterministically with every outcome their interface allows (Spec).  *)
(*                                                                         *)
(* The services behind the collaborators (services/geocoding.py,           *)
(* services/building_data.py, the facade of services/llm.py) are operators *)
(* on the upstream answer; ServiceSpec calls each of them once on its own. *)
(*                                                                         *)
(* PipelinesSpec adds the gateway service's handler to the two pipelines.  *)
(* ConcurrentSpec follows the requests that are in flight together in one  *)
(* process: each has its own frame, and they share the upload directory.   *)
(*                                                                         *)
(* Optional values (Python None) are wrapped: None is <<>> and a value v   *)
(* is <<v>>.  Strings that the code parses are sequences of tokens.        *)
(***************************************************************************)
EXTENDS Integers, Sequences, FiniteSets, TLC

VARIABLES
    impl,           \* which implementation serves the request
    llm_facade,     \* "none" when try_get_llm_facade() returned None, else "configured"
    payload,        \* BuildingInfoRequest: address, coordinates, image_base64
    pc,             \* position of the request in the pipeline
    decoded_image,  \* None or <<[bytes, extension]>>
    geocode_result, \* None or <<CoordinatesAndBuildingId>>
    geocode_source, \* None or <<label>>
    sources,        \* the provenance list being accumulated
    building,       \* None or <<BuildingInfo>>: the profile being accumulated
    pre_enrich,     \* None or <<BuildingInfo>>: the profile when enrichment was entered
    calls,          \* log of collaborator calls: [op, arg, ret]
    outcome,        \* what the caller receives: pending, ok, error or crash
    response,       \* None or <<BuildingInfoResponse>>: the body of the answer
    uploads,        \* the files written into the upload directory, in order: [path, bytes]
    in_flight       \* ConcurrentSpec: the frames of the requests in flight in the process

vars == <<impl, llm_facade, payload, pc, decoded_image, geocode_result,
          geocode_source, sources, building, pre_enrich, calls, outcome, response,
          uploads, in_flight>>

----------------------------------------------------------------------------
(* Bounds of the model *)

MaxCoord == 1
MaxOsmId == 1
\* the readings of the clock are 0..MaxClock
MaxClock == 1

----------------------------------------------------------------------------
(* Optional values *)

None == <<>>
Some(v) == <<v>>
IsNone(o) == o = <<>>
Get(o) == o[1]

----------------------------------------------------------------------------
(* Data model: schemas/building.py *)

Coordinates == {[lat |-> i, lon |-> MaxCoord - i] : i \in 0..MaxCoord}

BuildingId == [osm_id : 0..MaxOsmId]

\* The results a geocoding call can return: result i names building i.
CoordinatesAndBuildingId ==
    {[coordinates |-> [lat |-> i % (MaxCoord + 1), lon |-> MaxCoord - (i % (MaxCoord + 1))],
      building_id |-> [osm_id |-> i]] : i \in 0..MaxOsmId}

BuildingInfo(name, year_built, architect, location, history, image_path) ==
    [name |-> name, year_built |-> year_built, architect |-> architect,
     location |-> location, history |-> history, image_path |-> image_path]

----------------------------------------------------------------------------
(* Strings the code parses, as sequences of tokens *)

RECURSIVE LStrip(_)
LStrip(s) == IF s # <<>> /\ Head(s) = " " THEN LStrip(Tail(s)) ELSE s

RECURSIVE RStrip(_)
RStrip(s) == IF s # <<>> /\ s[Len(s)] = " " THEN RStrip(SubSeq(s, 1, Len(s) - 1)) ELSE s

\* str.strip()
Strip(s) == RStrip(LStrip(s))

\* the index of the first occurrence of token t in s, or 0
FirstIndex(s, t) ==
    IF \E i \in 1..Len(s) : s[i] = t
    THEN CHOOSE i \in 1..Len(s) : s[i] = t /\ \A j \in 1..(i - 1) : s[j] # t
    ELSE 0

\* str.partition(","): the text before the first comma and the text after it
PartitionComma(s) ==
    LET k == FirstIndex(s, ",")
    IN  IF k = 0 THEN [header |-> s, encoded |-> <<>>]
        ELSE [header |-> SubSeq(s, 1, k - 1), encoded |-> SubSeq(s, k + 1, Len(s))]

\* header.split(";")[0].split(":")[-1] of a header "data:" <mime> ";base64"
MimeOf(header) ==
    IF Len(header) >= 2 /\ header[2] # ";base64" THEN header[2] ELSE ""

\* _MIME_EXTENSION_MAP.get(mime, _DEFAULT_IMAGE_EXTENSION)
ExtensionOf(mime) ==
    CASE mime = "image/jpeg" -> "jpg"
      [] mime = "image/png" -> "png"
      [] mime = "image/webp" -> "webp"
      [] OTHER -> "jpg"

----------------------------------------------------------------------------
(* base64.b64decode(encoded, validate=True) *)

B64Chars == {"A", "B", "F", "Q", "U"}

B64Index(c) ==
    CASE c = "A" -> 0
      [] c = "B" -> 1
      [] c = "F" -> 5
      [] c = "Q" -> 16
      [] c = "U" -> 20

\* the number of "=" characters that end s
RECURSIVE PadCount(_)
PadCount(s) == IF s # <<>> /\ s[Len(s)] = "=" THEN 1 + PadCount(SubSeq(s, 1, Len(s) - 1)) ELSE 0

\* b64decode accepts s: alphabet characters, at most two "=" and only at the
\* end, and whole groups of four
B64Accepts(s) ==
    LET p == PadCount(s)
    IN  /\ p <= 2
        /\ \A i \in 1..(Len(s) - p) : s[i] \in B64Chars
        /\ Len(s) % 4 = 0

\* the bytes of one group of four characters
B64Quad(q) ==
    LET v(i) == IF q[i] = "=" THEN 0 ELSE B64Index(q[i])
        b1 == v(1) * 4 + v(2) \div 16
        b2 == (v(2) % 16) * 16 + v(3) \div 4
        b3 == (v(3) % 4) * 64 + v(4)
    IN  IF q[3] = "=" THEN <<b1>>
        ELSE IF q[4] = "=" THEN <<b1, b2>>
        ELSE <<b1, b2, b3>>

RECURSIVE B64Bytes(_)
B64Bytes(s) == IF s = <<>> THEN <<>> ELSE B64Quad(SubSeq(s, 1, 4)) \o B64Bytes(SubSeq(s, 5, Len(s)))

\* a variant: the payload is decoded without validation
b64decode_Lenient(s) ==
    [ok |-> TRUE, bytes |-> IF B64Accepts(s) THEN B64Bytes(s) ELSE <<>>]

\* [ok, bytes]: ok is FALSE where b64decode raises binascii.Error
b64decode(s) ==
    IF B64Accepts(s) THEN [ok |-> TRUE, bytes |-> B64Bytes(s)]
    ELSE [ok |-> FALSE, bytes |-> <<>>]

\* _decode_image: [ok, bytes, extension]; ok is FALSE where it raises
\* (ValueError in the handler, BuildingInfoValidationError in the orchestrator)
DecodeImage(image_base64) ==
    LET stripped == Strip(image_base64)
        prefixed == stripped # <<>> /\ Head(stripped) = "data:"
        parts == PartitionComma(stripped)
        encoded == IF prefixed THEN parts.encoded ELSE stripped
        extension == IF prefixed THEN ExtensionOf(MimeOf(parts.header)) ELSE "jpg"
        decoded == b64decode(encoded)
    IN  IF prefixed /\ encoded = <<>>
        THEN [ok |-> FALSE, bytes |-> <<>>, extension |-> extension]
        ELSE [ok |-> decoded.ok, bytes |-> decoded.bytes, extension |-> extension]

----------------------------------------------------------------------------
(* LLM facade: services/llm.py *)

\* JSON values of the fields of the provider's reply
JsonNull == [tag |-> "null", num |-> 0, text |-> <<>>]
JsonInt(n) == [tag |-> "int", num |-> n, text |-> <<>>]
JsonBool(b) == [tag |-> "bool", num |-> IF b THEN 1 ELSE 0, text |-> <<>>]
\* an infinite float: Infinity, -Infinity or an overflowing literal such as 1e999
JsonNonFinite == [tag |-> "nonfinite", num |-> 0, text |-> <<>>]
\* the float NaN
JsonNaN == [tag |-> "nan", num |-> 0, text |-> <<>>]
\* an array or an object
JsonArray == [tag |-> "array", num |-> 0, text |-> <<>>]
\* the key is not in the object
JsonMissing == [tag |-> "missing", num |-> 0, text |-> <<>>]
JsonStr(t) == [tag |-> "str", num |-> 0, text |-> t]

Digits == {"0", "1", "2", "9"}

DigitValue(c) ==
    CASE c = "0" -> 0
      [] c = "1" -> 1
      [] c = "2" -> 2
      [] c = "9" -> 9

\* The Cyrillic literals of the source are written in Latin letters:
\* "neizvestno" and "ne udalos najti".
\* str.lower() on the tokens that have an upper-case form here
Lower(s) == [i \in 1..Len(s) |-> IF s[i] = "Unknown" THEN "unknown" ELSE s[i]]

\* re.search(r"(1[0-9]{3}|20[0-9]{2})", s): the positions where a match starts
YearMatchAt(s, i) ==
    /\ i + 3 <= Len(s)
    /\ \A k \in i..(i + 3) : s[k] \in Digits
    /\ \/ s[i] = "1"
       \/ s[i] = "2" /\ s[i + 1] = "0"

YearValueAt(s, i) ==
    DigitValue(s[i]) * 1000 + DigitValue(s[i + 1]) * 100 + DigitValue(s[i + 2]) * 10 + DigitValue(s[i + 3])

\* _normalize_year: [raises, value]; raises where int(value) raises
\* OverflowError or ValueError
normalize_year(value) ==
    CASE value.tag = "null" -> [raises |-> FALSE, value |-> None]
      [] value.tag \in {"int", "bool"} -> [raises |-> FALSE, value |-> Some(value.num)]
      [] value.tag \in {"nonfinite", "nan"} -> [raises |-> TRUE, value |-> None]
      [] value.tag = "str" ->
            LET lowered == Lower(Strip(value.text))
                starts == {i \in 1..Len(lowered) : YearMatchAt(lowered, i)}
            IN  IF \/ lowered = <<>>
                   \/ \E i \in 1..Len(lowered) : lowered[i] \in {"unknown", "neizvestno"}
                THEN [raises |-> FALSE, value |-> None]
                ELSE IF starts # {}
                THEN [raises |-> FALSE,
                      value |-> Some(YearValueAt(lowered, CHOOSE i \in starts : \A j \in starts : i <= j))]
                ELSE [raises |-> FALSE, value |-> None]
      [] OTHER -> [raises |-> FALSE, value |-> None]

\* _normalize_optional_str
normalize_optional_str(value) ==
    IF value.tag # "str" THEN None
    ELSE LET stripped == Strip(value.text)
         IN  IF stripped = <<>> THEN None
             ELSE IF Lower(stripped) \in {<<"unknown">>, <<"neizvestno">>, <<"ne", " ", "udalos", " ", "najti">>}
             THEN None
             ELSE Some(stripped)

\* What the provider's generate() can do: raise LLMProviderError, raise any
\* other exception, or return a text: empty, blank, not JSON, a JSON value that
\* is not an object, or a JSON object.
LlmReply(kind, year, architect, history) ==
    [kind |-> kind, year |-> year, architect |-> architect, history |-> history]

\* LLMFacade.query_building_info with _parse_response:
\*   "raise"   LLMProviderError reaches the caller
\*   "crash"   another exception reaches the caller
\*   "none"    returns None
\*   "result"  returns an LLMQueryResult
query_building_info(reply) ==
    LET year == normalize_year(reply.year)
        nothing == [kind |-> "none", year_built |-> None, architect |-> None, history |-> None]
    IN  CASE reply.kind \in {"raise_provider", "raise_other"} -> [nothing EXCEPT !.kind = "raise"]
          [] reply.kind \in {"empty", "blank", "nonjson", "nonobject"} -> nothing
          [] reply.kind = "object" ->
                IF year.raises THEN [nothing EXCEPT !.kind = "crash"]
                ELSE [kind |-> "result", year_built |-> year.value,
                      architect |-> normalize_optional_str(reply.architect),
                      history |-> normalize_optional_str(reply.history)]

----------------------------------------------------------------------------
(* Outcomes of a request *)

Pending == [kind |-> "pending", status_code |-> 0, detail |-> "", upstream_status |-> None]

\* the response is returned with status 200
Ok == [kind |-> "ok", status_code |-> 200, detail |-> "", upstream_status |-> None]

\* a structured error: an HTTPException of the handler, or a
\* BuildingInfoOrchestratorError of the orchestrator (services/exceptions.py)
Error(status_code, detail, upstream_status) ==
    [kind |-> "error", status_code |-> status_code, detail |-> detail, upstream_status |-> upstream_status]

\* an exception that is none of the above leaves the pipeline: the server
\* answers 500 without a structured detail
Crash(what) == [kind |-> "crash", status_code |-> 500, detail |-> what, upstream_status |-> None]

RequiresLocationDetail == "OpenStreetMap gateway requires either an address or coordinates to query OpenStreetMap APIs"
CannotDecodeDetail == "OpenStreetMap gateway cannot decode the provided base64 photo"
NotFoundDetail == "OpenStreetMap Nominatim could not resolve the provided location"
SearchFailedDetail == "OpenStreetMap Nominatim search failed"
ReverseFailedDetail == "OpenStreetMap Nominatim reverse lookup failed"
FetchFailedDetail == "OpenStreetMap API failed to provide building data"
CannotPrepareDetail == "OpenStreetMap gateway cannot prepare the uploads directory"
CannotStoreDetail == "OpenStreetMap gateway failed to store the uploaded photo"

SearchLabel == "OpenStreetMap Nominatim (search)"
ReverseLabel == "OpenStreetMap Nominatim (reverse)"
OsmApiLabel == "OpenStreetMap API"
LlmLabel == "LLM Generated"
StubLabel == "Gateway Stub"

----------------------------------------------------------------------------
(* The request as a record of the variables; every stage maps it to the     *)
(* request at the next suspension point (a collaborator call) or at its end *)

Current ==
    [impl |-> impl, llm_facade |-> llm_facade, payload |-> payload, pc |-> pc,
     decoded_image |-> decoded_image, geocode_result |-> geocode_result,
     geocode_source |-> geocode_source, sources |-> sources, building |-> building,
     pre_enrich |-> pre_enrich, calls |-> calls, outcome |-> outcome,
     response |-> response]

Becomes(s) ==
    /\ impl' = s.impl
    /\ llm_facade' = s.llm_facade
    /\ payload' = s.payload
    /\ pc' = s.pc
    /\ decoded_image' = s.decoded_image
    /\ geocode_result' = s.geocode_result
    /\ geocode_source' = s.geocode_source
    /\ sources' = s.sources
    /\ building' = s.building
    /\ pre_enrich' = s.pre_enrich
    /\ calls' = s.calls
    /\ outcome' = s.outcome
    /\ response' = s.response

\* a variant: the first call of a request is made again when it fails
Fails_Retrying(s, error) ==
    IF Len(s.calls) = 1 /\ error.kind = "error" /\ error.status_code = 502
    THEN s
    ELSE [s EXCEPT !.pc = "done", !.outcome = error]

\* the request ends with an error
Fails(s, error) == [s EXCEPT !.pc = "done", !.outcome = error]

\* a collaborator call is logged with its argument and what it returned
Called(s, op, arg, ret) == [s EXCEPT !.calls = Append(@, [op |-> op, arg |-> arg, ret |-> ret])]

\* Python truth of an Optional[str]: None and "" are false
Truthy(text) == ~IsNone(text) /\ Get(text) # <<>>

----------------------------------------------------------------------------
(* Finalize: the response is built and returned *)

\* The fields BuildingInfo declares (schemas/building.py): what the response
\* carries of a profile.  image_path is not among them: model_copy(update=
\* {"image_path": ...}) sets an attribute the schema does not know, and the
\* response model leaves it out.
model_dump(b) ==
    [name |-> b.name, year_built |-> b.year_built, architect |-> b.architect,
     location |-> b.location, history |-> b.history]

\* BuildingInfoResponse(building=..., source=...)
BuildingInfoResponse(b, source) == [building |-> model_dump(b), source |-> source]

\* a variant: the stub label stands for every list without the OSM API label
HandlerReturn_Stubbed(s) ==
    LET labelled == IF \A i \in DOMAIN s.sources : s.sources[i] # OsmApiLabel THEN <<StubLabel>> ELSE s.sources
    IN  IF IsNone(s.building)
        THEN Fails([s EXCEPT !.sources = labelled], Crash("ValidationError"))
        ELSE [s EXCEPT !.sources = labelled, !.pc = "done", !.outcome = Ok,
                       !.response = Some(BuildingInfoResponse(Get(s.building), labelled))]

\* routers/buildings.py: the stub label and BuildingInfoResponse(building=...,
\* source=...), which raises pydantic's ValidationError for building=None
HandlerReturn(s) ==
    LET labelled == IF s.sources = <<>> THEN <<StubLabel>> ELSE s.sources
    IN  IF IsNone(s.building)
        THEN Fails([s EXCEPT !.sources = labelled], Crash("ValidationError"))
        ELSE [s EXCEPT !.sources = labelled, !.pc = "done", !.outcome = Ok,
                       !.response = Some(BuildingInfoResponse(Get(s.building), labelled))]

\* services/building_info.py: BuildingInfoResponse(building=building, source=sources)
OrchReturn(s) ==
    IF IsNone(s.building)
    THEN Fails(s, Crash("ValidationError"))
    ELSE [s EXCEPT !.pc = "done", !.outcome = Ok,
                   !.response = Some(BuildingInfoResponse(Get(s.building), s.sources))]

Return(s) == IF s.impl = "handler" THEN HandlerReturn(s) ELSE OrchReturn(s)

----------------------------------------------------------------------------
(* LLM enrichment *)

\* a variant: enrichment is attempted for every profile
NeedsEnrichment_Always(b) == TRUE

\* any(value is None for value in (year_built, architect, history))
NeedsEnrichment(b) ==
    IsNone(b.year_built) \/ IsNone(b.architect) \/ IsNone(b.history)

\* a variant: every field the result has is taken
Updates_Overwriting(b, result) ==
    {f \in {"year_built", "architect", "history"} : ~IsNone(result[f])}

\* the updates dict: only the fields the profile lacks and the result has
Updates(b, result) ==
    {f \in {"year_built", "architect", "history"} : IsNone(b[f]) /\ ~IsNone(result[f])}

\* building.model_copy(update=updates)
Merge(b, result) ==
    LET u == Updates(b, result)
    IN  [b EXCEPT !.year_built = IF "year_built" \in u THEN result.year_built ELSE @,
                  !.architect = IF "architect" \in u THEN result.architect ELSE @,
                  !.history = IF "history" \in u THEN result.history ELSE @]

\* address or _build_address_hint(building)
AddressHint(address, b) ==
    IF Truthy(address) THEN [kind |-> "address", address |-> address, location |-> None]
    ELSE IF ~IsNone(b.location) THEN [kind |-> "coordinates", address |-> None, location |-> b.location]
    ELSE [kind |-> "unspecified", address |-> None, location |-> None]

\* routers/buildings.py _enrich_building_info_by_lmm with a facade: the
\* profile it returns for what query_building_info did
HandlerEnriched(b, result) ==
    IF result.kind = "result" THEN Some(Merge(b, result)) ELSE Some(b)

\* routers/buildings.py: `if updated_building != building:` and what follows
HandlerAdopt(s, updated) ==
    IF updated # s.building
    THEN [s EXCEPT !.building = updated, !.sources = Append(@, LlmLabel)]
    ELSE s

\* services/llm_enricher.py LlmBuildingInfoEnricher.enrich with a facade:
\* [building, enriched]
OrchEnriched(b, result) ==
    IF result.kind = "result" /\ Updates(b, result) # {}
    THEN [building |-> Some(Merge(b, result)), enriched |-> TRUE]
    ELSE [building |-> Some(b), enriched |-> FALSE]

\* a variant: the label is appended whatever the enricher reports
OrchAdopt_AlwaysLabelled(s, e) ==
    [s EXCEPT !.building = e.building, !.sources = Append(@, LlmLabel)]

\* services/building_info.py: `if enriched: sources.append("LLM Generated")`
OrchAdopt(s, e) ==
    IF e.enriched
    THEN [s EXCEPT !.building = e.building, !.sources = Append(@, LlmLabel)]
    ELSE [s EXCEPT !.building = e.building]

\* the LLM has answered: the rest of the request
Enriched(s, reply) ==
    LET b == Get(s.building)
        result == query_building_info(reply)
        t == Called(s, "llm", <<AddressHint(s.payload.address, b), ~IsNone(s.decoded_image)>>, <<reply>>)
    IN  IF result.kind = "crash" THEN Fails(t, Crash("OverflowError"))
        ELSE IF s.impl = "handler" THEN Return(HandlerAdopt(t, HandlerEnriched(b, result)))
        ELSE Return(OrchAdopt(t, OrchEnriched(b, result)))

\* no facade is configured: the handler's helper returns None, the enricher
\* returns (building, False); no call is made
Unconfigured(s) ==
    IF s.impl = "handler" THEN Return(HandlerAdopt(s, None))
    ELSE Return(OrchAdopt(s, [building |-> s.building, enriched |-> FALSE]))

\* a variant: enrichment starts from the profile without its image path
AfterStore_Forgetting(s) ==
    IF NeedsEnrichment(Get(s.building))
    THEN LET t == [s EXCEPT !.building = Some([Get(s.building) EXCEPT !.image_path = None]),
                            !.pre_enrich = s.building]
         IN  IF s.llm_facade = "none" THEN Unconfigured(t) ELSE [t EXCEPT !.pc = "enrich"]
    ELSE Return(s)

\* after the image step: enrich if a field is missing, else return
AfterStore(s) ==
    IF NeedsEnrichment(Get(s.building))
    THEN LET t == [s EXCEPT !.pre_enrich = s.building]
         IN  IF s.llm_facade = "none" THEN Unconfigured(t) ELSE [t EXCEPT !.pc = "enrich"]
    ELSE Return(s)

----------------------------------------------------------------------------
(* Image persistence *)

\* What the store meets: the reading of datetime.now(), and whether mkdir
\* and write_bytes succeed ("stored") or raise OSError
StoreReply(kind, now) == [kind |-> kind, now |-> now]

\* the reference path: "/uploads/<filename>" from the handler's _persist_image,
\* str(base_path / filename) from ImageStorageService.store; the filename is
\* made of the building id, the coordinates (whole numbers here, which the
\* format .3f keeps apart), the timestamp and the extension
StoredPath(s, image, result, timestamp) ==
    [root |-> IF s.impl = "handler" THEN "/uploads" ELSE "base_path",
     osm_id |-> result.building_id.osm_id, coordinates |-> result.coordinates,
     timestamp |-> timestamp, extension |-> image.extension]

\* the store has answered: the path, or an OSError from mkdir or write_bytes;
\* the log keeps what the store met after what it returned
Stored(s, reply) ==
    LET image == Get(s.decoded_image)
        result == Get(s.geocode_result)
        path == StoredPath(s, image, result, reply.now)
        arg == <<image.bytes, image.extension, result.building_id.osm_id, result.coordinates>>
    IN  CASE reply.kind = "mkdir_failed" ->
                Fails(Called(s, "store", arg, <<"raise", reply>>), Error(500, CannotPrepareDetail, None))
          [] reply.kind = "write_failed" ->
                Fails(Called(s, "store", arg, <<"raise", reply>>), Error(500, CannotStoreDetail, None))
          [] reply.kind = "stored" ->
                AfterStore([Called(s, "store", arg, <<path, reply>>) EXCEPT
                                !.building = Some([Get(s.building) EXCEPT !.image_path = Some(path)])])

\* path.write_bytes(image_bytes): the file is created, or truncated and
\* written again when the path exists
Written(files, s, reply) ==
    IF reply.kind = "stored"
    THEN Append(files, [path |-> StoredPath(s, Get(s.decoded_image), Get(s.geocode_result), reply.now),
                        bytes |-> Get(s.decoded_image).bytes])
    ELSE files

\* `if decoded_image is not None:`
AfterFetch(s) ==
    IF ~IsNone(s.decoded_image) THEN [s EXCEPT !.pc = "store"] ELSE AfterStore(s)

----------------------------------------------------------------------------
(* Building-data fetch *)

\* a variant: the geocoded coordinates always replace the location
BackfillLocation_Overwrite(b, coordinates) == [b EXCEPT !.location = Some(coordinates)]

\* `if coordinates and not building.location:` a Coordinates object is always true
BackfillLocation(b, coordinates) ==
    IF IsNone(b.location) THEN [b EXCEPT !.location = Some(coordinates)] ELSE b

\* a variant: the bare profile has no location
BareProfile_Empty(coordinates) == BuildingInfo(None, None, None, None, None, None)

\* BuildingInfo(location=coordinates)
BareProfile(coordinates) == BuildingInfo(None, None, None, Some(coordinates), None, None)

\* building_data_service.fetch has answered: a profile, None,
\* OpenStreetMapServiceError, or an exception of another class ("crash"),
\* which `except OpenStreetMapServiceError` does not catch
Fetched(s, reply) ==
    LET result == Get(s.geocode_result)
        t == Called(s, "fetch", <<result.building_id.osm_id>>, <<reply>>)
    IN  CASE reply.kind = "raise" ->
                Fails(t, Error(502, FetchFailedDetail,
                               IF s.impl = "handler" THEN None ELSE reply.upstream_status))
          [] reply.kind = "crash" -> Fails(t, Crash("AttributeError"))
          [] reply.kind = "profile" ->
                AfterFetch([t EXCEPT !.building = Some(BackfillLocation(Get(reply.profile), result.coordinates)),
                                     !.sources = Append(@, OsmApiLabel)])
          [] reply.kind = "none" ->
                AfterFetch([t EXCEPT !.building = Some(BareProfile(result.coordinates))])

----------------------------------------------------------------------------
(* Geocode resolution *)

\* a variant: the not-found case is reported as an upstream failure
Resolve_AsUpstream(s) ==
    IF IsNone(s.geocode_result)
    THEN Fails(s, Error(502, NotFoundDetail, None))
    ELSE [s EXCEPT !.sources = IF ~IsNone(s.geocode_source) THEN Append(@, Get(s.geocode_source)) ELSE @,
                   !.pc = "fetch"]

\* a variant: the geocoding label is not recorded
Resolve_Unlabelled(s) ==
    IF IsNone(s.geocode_result)
    THEN Fails(s, Error(404, NotFoundDetail, None))
    ELSE [s EXCEPT !.pc = "fetch"]

\* a variant: the profile is not fetched; the image and enrichment stages
\* follow the geocoding stage with a bare profile
Resolve_SkippingFetch(s) ==
    IF IsNone(s.geocode_result)
    THEN Fails(s, Error(404, NotFoundDetail, None))
    ELSE AfterFetch([s EXCEPT !.sources = IF ~IsNone(s.geocode_source) THEN Append(@, Get(s.geocode_source)) ELSE @,
                              !.building = Some(BareProfile(Get(s.geocode_result).coordinates))])

\* `if geocode_result is None:` raise not-found; else the geocoding label is
\* the first source and the fetch is called
Resolve(s) ==
    IF IsNone(s.geocode_result)
    THEN Fails(s, Error(404, NotFoundDetail, None))
    ELSE [s EXCEPT !.sources = IF ~IsNone(s.geocode_source) THEN Append(@, Get(s.geocode_source)) ELSE @,
                   !.pc = "fetch"]

\* a variant: the fallback is taken whenever coordinates are present
NeedsReverse_IgnoringSearch(result, p) == ~IsNone(p.coordinates)

\* a variant: the fallback is taken only when no address was given
NeedsReverse_OnlyWithoutAddress(result, p) ==
    IsNone(result) /\ ~IsNone(p.coordinates) /\ ~Truthy(p.address)

\* `if geocode_result is None and payload.coordinates is not None:`
NeedsReverse(result, p) == IsNone(result) /\ ~IsNone(p.coordinates)

AfterSearch(s) ==
    IF NeedsReverse(s.geocode_result, s.payload) THEN [s EXCEPT !.pc = "reverse"] ELSE Resolve(s)

\* geocoding_service.geocode(payload.address) has answered: a result, None,
\* OpenStreetMapServiceError ("raise"), or an exception of another class
\* ("crash"), which `except OpenStreetMapServiceError` does not catch
Geocoded(s, reply) ==
    LET t == Called(s, "geocode", <<s.payload.address>>, <<reply>>)
    IN  CASE reply.kind = "raise" ->
                Fails(t, Error(502, SearchFailedDetail,
                               IF s.impl = "handler" THEN None ELSE reply.upstream_status))
          [] reply.kind = "crash" -> Fails(t, Crash("ValidationError"))
          [] reply.kind = "result" ->
                AfterSearch([t EXCEPT !.geocode_result = reply.result, !.geocode_source = Some(SearchLabel)])
          [] reply.kind = "none" -> AfterSearch(t)

\* geocoding_service.reverse_geocode(payload.coordinates) has answered
Reversed(s, reply) ==
    LET t == Called(s, "reverse_geocode", <<s.payload.coordinates>>, <<reply>>)
    IN  CASE reply.kind = "raise" ->
                Fails(t, Error(502, ReverseFailedDetail,
                               IF s.impl = "handler" THEN None ELSE reply.upstream_status))
          [] reply.kind = "crash" -> Fails(t, Crash("ValidationError"))
          [] reply.kind = "result" ->
                Resolve([t EXCEPT !.geocode_result = reply.result, !.geocode_source = Some(ReverseLabel)])
          [] reply.kind = "none" -> Resolve(t)

----------------------------------------------------------------------------
(* Arrival of the request *)

\* routers/buildings.py: `if not payload.address and payload.coordinates is None:`
\* the orchestrator does not make this test
MissingLocation(which, p) ==
    which = "handler" /\ ~Truthy(p.address) /\ IsNone(p.coordinates)

\* the code from the arrival of the request to its first collaborator call
Received(s) ==
    LET p == s.payload
        image == DecodeImage(Get(p.image_base64))
    IN  IF MissingLocation(s.impl, p)
        THEN Fails(s, Error(400, RequiresLocationDetail, None))
        ELSE IF Truthy(p.image_base64) /\ ~image.ok
        THEN Fails(s, Error(400, CannotDecodeDetail, None))
        ELSE LET t == [s EXCEPT !.decoded_image =
                            IF Truthy(p.image_base64)
                            THEN Some([bytes |-> image.bytes, extension |-> image.extension])
                            ELSE None]
             IN  IF Truthy(p.address) THEN [t EXCEPT !.pc = "geocode"] ELSE AfterSearch(t)

----------------------------------------------------------------------------
(* Conversions of upstream JSON values: float(value) and int(value)        *)

IsDigits(t) == t # <<>> /\ \A i \in 1..Len(t) : t[i] \in Digits

RECURSIVE ParseDigits(_)
ParseDigits(t) ==
    IF t = <<>> THEN 0 ELSE ParseDigits(SubSeq(t, 1, Len(t) - 1)) * 10 + DigitValue(t[Len(t)])

\* what a conversion gives: the exception it raises ("" for none), the
\* number, and whether the number is finite
Converted(exc, num, finite) == [exc |-> exc, num |-> num, finite |-> finite]

\* float(value)
py_float(v) ==
    CASE v.tag \in {"null", "array"} -> Converted("TypeError", 0, TRUE)
      [] v.tag \in {"int", "bool"} -> Converted("", v.num, TRUE)
      [] v.tag \in {"nonfinite", "nan"} -> Converted("", 0, FALSE)
      [] v.tag = "str" ->
            IF IsDigits(Strip(v.text)) THEN Converted("", ParseDigits(Strip(v.text)), TRUE)
            ELSE Converted("ValueError", 0, TRUE)

\* int(value)
py_int(v) ==
    CASE v.tag \in {"null", "array"} -> Converted("TypeError", 0, TRUE)
      [] v.tag \in {"int", "bool"} -> Converted("", v.num, TRUE)
      [] v.tag = "nonfinite" -> Converted("OverflowError", 0, FALSE)
      [] v.tag = "nan" -> Converted("ValueError", 0, FALSE)
      [] v.tag = "str" ->
            IF IsDigits(Strip(v.text)) THEN Converted("", ParseDigits(Strip(v.text)), TRUE)
            ELSE Converted("ValueError", 0, TRUE)

----------------------------------------------------------------------------
(* GeocodingService: services/geocoding.py *)

\* what a service call gives its caller, in the shape of the replies the
\* pipeline receives
ServiceNone == [kind |-> "none", result |-> None, upstream_status |-> None]
ServiceRaise(upstream_status) == [kind |-> "raise", result |-> None, upstream_status |-> upstream_status]
\* an exception that is not an OpenStreetMapServiceError leaves the service
ServiceCrash == [kind |-> "crash", result |-> None, upstream_status |-> None]
ServiceResult(r) == [kind |-> "result", result |-> Some(r), upstream_status |-> None]

\* Coordinates(lat=..., lon=...) and BuildingId(osm_id=...) validate:
\* -90 <= lat <= 90, -180 <= lon <= 180, osm_id >= 0
Validates(lat, lon, osm_id) ==
    /\ lat.finite /\ lat.num >= -90 /\ lat.num <= 90
    /\ lon.finite /\ lon.num >= -180 /\ lon.num <= 180
    /\ osm_id.num >= 0

\* the return statement: the pydantic models are built outside the try
Located(lat, lon, osm_id) ==
    IF Validates(lat, lon, osm_id)
    THEN ServiceResult([coordinates |-> [lat |-> lat.num, lon |-> lon.num],
                        building_id |-> [osm_id |-> osm_id.num]])
    ELSE ServiceCrash

\* the HTTP exchange: raise_for_status, transport errors, response.json()
HttpFailure(up) ==
    CASE up.shape = "http_status" -> ServiceRaise(up.status)
      [] up.shape \in {"http_error", "invalid_json"} -> ServiceRaise(None)

HttpFailed(up) == up.shape \in {"http_status", "http_error", "invalid_json"}

\* GeocodingService.geocode on the upstream answer up
geocode(up) ==
    CASE HttpFailed(up) -> HttpFailure(up)
      [] up.shape \in {"not_a_list", "empty_list"} -> ServiceNone
      [] up.shape = "scalar_item" -> ServiceRaise(None)
      [] up.shape = "item" ->
            LET lat == py_float(up.lat)
                lon == py_float(up.lon)
                osm_id == py_int(up.osm_id)
                caught == {"TypeError", "ValueError"}
            IN  IF up.lat.tag = "missing" \/ lat.exc \in caught THEN ServiceRaise(None)
                ELSE IF up.lon.tag = "missing" \/ lon.exc \in caught THEN ServiceRaise(None)
                ELSE IF up.osm_id.tag = "missing" \/ osm_id.exc \in caught THEN ServiceRaise(None)
                ELSE IF osm_id.exc # "" THEN ServiceCrash
                ELSE Located(lat, lon, osm_id)

\* `osm_type not in {"way", "W"}`
IsWay(osm_type) == osm_type.tag = "str" /\ osm_type.text \in {<<"way">>, <<"W">>}

\* GeocodingService.reverse_geocode(coordinates) on the upstream answer up
reverse_geocode(coordinates, up) ==
    CASE HttpFailed(up) -> HttpFailure(up)
      [] up.shape = "not_a_dict" -> ServiceNone
      [] up.shape = "dict" ->
            LET lat_raw == IF up.lat.tag = "missing" THEN JsonInt(coordinates.lat) ELSE up.lat
                lon_raw == IF up.lon.tag = "missing" THEN JsonInt(coordinates.lon) ELSE up.lon
                lat == py_float(lat_raw)
                lon == py_float(lon_raw)
                osm_id == py_int(up.osm_id)
                caught == {"TypeError", "ValueError"}
            IN  IF up.osm_id.tag \in {"missing", "null"} THEN ServiceNone
                \* an array or an object cannot be hashed: TypeError
                ELSE IF up.osm_type.tag = "array" THEN ServiceCrash
                ELSE IF ~IsWay(up.osm_type) THEN ServiceNone
                ELSE IF osm_id.exc \in caught THEN ServiceRaise(None)
                ELSE IF osm_id.exc # "" THEN ServiceCrash
                ELSE IF lat.exc \in caught \/ lon.exc \in caught THEN ServiceRaise(None)
                ELSE Located(lat, lon, osm_id)

----------------------------------------------------------------------------
(* BuildingDataService: services/building_data.py *)

\* _extract_name, _extract_architect: a string that is not blank, stripped
extract_text(v) ==
    IF v.tag = "str" /\ Strip(v.text) # <<>> THEN Some(Strip(v.text)) ELSE None

\* re.search(r"(\d{1,4})", candidate): the first run of digits, four at most
extract_year(v) ==
    IF v.tag # "str" \/ ~\E i \in 1..Len(v.text) : v.text[i] \in Digits THEN None
    ELSE LET t == v.text
             first == CHOOSE i \in 1..Len(t) : t[i] \in Digits /\ \A j \in 1..(i - 1) : t[j] \notin Digits
             last == CHOOSE k \in first..Len(t) :
                        /\ k <= first + 3
                        /\ \A j \in first..k : t[j] \in Digits
                        /\ k + 1 > Len(t) \/ k = first + 3 \/ t[k + 1] \notin Digits
         IN  Some(ParseDigits(SubSeq(t, first, last)))

\* the BuildingInfo fetch builds of the tags of the element it matched
ProfileOf(tags) ==
    BuildingInfo(extract_text(tags.name), extract_year(tags.start_date),
                 extract_text(tags.architect), None, extract_text(tags.description), None)

NoTags ==
    [kind |-> "missing", name |-> JsonMissing, start_date |-> JsonMissing,
     architect |-> JsonMissing, description |-> JsonMissing]

NoItem == [shape |-> "none", type |-> "", id |-> 0, tags |-> NoTags]

\* _extract_building, the loop over `elements`.  The condition is
\*   isinstance(item, dict) and type == "way" or type == "node" and id == element_id
\* and `and` binds tighter than `or`: a way matches whatever its id, and for
\* an item that is not a dict item.get raises AttributeError.
RECURSIVE extract_building(_, _)
extract_building(elements, element_id) ==
    IF elements = <<>> THEN [kind |-> "raise", item |-> NoItem]
    ELSE LET item == Head(elements)
         IN  IF item.shape = "dict" /\ item.type = "way" THEN [kind |-> "item", item |-> item]
             ELSE IF item.shape # "dict" THEN [kind |-> "crash", item |-> NoItem]
             ELSE IF item.type = "node" /\ item.id = element_id THEN [kind |-> "item", item |-> item]
             ELSE extract_building(Tail(elements), element_id)

FetchNone == [kind |-> "none", profile |-> None, upstream_status |-> None]
FetchRaise(upstream_status) == [kind |-> "raise", profile |-> None, upstream_status |-> upstream_status]
FetchCrash == [kind |-> "crash", profile |-> None, upstream_status |-> None]
FetchProfile(b) == [kind |-> "profile", profile |-> Some(b), upstream_status |-> None]

\* `if not building_id:` None and 0 are false
Skips(building_id) == IsNone(building_id) \/ Get(building_id) = 0

\* the element ids fetch requests of the upstream: client.get(url) for
\* _build_element_url(building_id), unless it returned before
fetch_requests(building_id) ==
    IF Skips(building_id) THEN <<>> ELSE <<Get(building_id)>>

\* BuildingDataService.fetch(building_id=...) on the upstream answer up
fetch(building_id, up) ==
    IF Skips(building_id) THEN FetchNone
    ELSE CASE up.shape = "http_status" -> FetchRaise(up.status)
           [] up.shape \in {"http_error", "invalid_json"} -> FetchRaise(None)
           [] up.shape \in {"not_a_dict", "no_elements"} -> FetchRaise(None)
           [] up.shape = "elements" ->
                 LET found == extract_building(up.elements, Get(building_id))
                 IN  CASE found.kind = "raise" -> FetchRaise(None)
                       [] found.kind = "crash" -> FetchCrash
                       [] found.kind = "item" ->
                             \* building.get("tags", {}) and tags.get(...)
                             IF found.item.tags.kind = "missing" THEN FetchProfile(ProfileOf(NoTags))
                             ELSE IF found.item.tags.kind = "dict" THEN FetchProfile(ProfileOf(found.item.tags))
                             ELSE FetchCrash

----------------------------------------------------------------------------
(* LLM facade from settings: settings.py, services/llm.py *)

\* _coerce_env
coerce_env(value) ==
    IF IsNone(value) \/ Strip(Get(value)) = <<>> THEN None ELSE Some(Strip(Get(value)))

NoFacade == [kind |-> "none", default_provider |-> "", available_providers |-> <<>>]

\* _build_llm_facade; NoFacade where it raises LLMNotConfiguredError
build_llm_facade(open_api_key, giga_chat_api_key) ==
    LET giga == IF Truthy(giga_chat_api_key) THEN <<"gigachat">> ELSE <<>>
        open == IF Truthy(open_api_key) THEN <<"openai">> ELSE <<>>
        providers == giga \o open
    IN  IF providers = <<>> THEN NoFacade
        ELSE [kind |-> "facade", default_provider |-> providers[1], available_providers |-> providers]

\* try_get_llm_facade() for the values of OPEN_API_KEY and GIGA_CHAT_API_KEY
try_get_llm_facade(open_env, giga_env) ==
    build_llm_facade(coerce_env(open_env), coerce_env(giga_env))

----------------------------------------------------------------------------
(* The requests and the collaborators' answers *)

Addresses == {None, Some(<<>>), Some(<<"Main St">>)}

Images ==
    {None,
     Some(<<>>),
     Some(<<" ">>),
     Some(<<"Q", "U", "F", "B">>),
     Some(<<"data:", "image/png", ";base64", ",", "Q", "Q", "=", "=">>),
     Some(<<"@", "@", "@", "@">>),
     Some(<<"Q", "Q", "Q">>),
     Some(<<"data:", "image/png", ";base64", ",">>)}

Requests ==
    [address : Addresses,
     coordinates : {None} \cup {Some(c) : c \in Coordinates},
     image_base64 : Images]

UpstreamStatuses == {None, Some(503)}

\* What Nominatim can answer: no answer (HTTP status error, transport error,
\* a body that is not JSON), or a JSON body: for search a value that is not a
\* list, an empty list, or a list whose first entry is a scalar or an object;
\* for reverse a value that is not an object, or an object.
Nominatim(shape, status, lat, lon, osm_id, osm_type) ==
    [shape |-> shape, status |-> status, lat |-> lat, lon |-> lon,
     osm_id |-> osm_id, osm_type |-> osm_type]

NominatimFailures ==
    {Nominatim("http_status", Some(503), JsonMissing, JsonMissing, JsonMissing, JsonMissing),
     Nominatim("http_error", None, JsonMissing, JsonMissing, JsonMissing, JsonMissing),
     Nominatim("invalid_json", None, JsonMissing, JsonMissing, JsonMissing, JsonMissing)}

LatValues ==
    {JsonMissing, JsonNull, JsonArray, JsonNonFinite, JsonStr(<<"abc">>), JsonStr(<<"1", "2">>), JsonInt(91)}
    \cup {JsonInt(c.lat) : c \in Coordinates}

LonValues ==
    {JsonMissing, JsonStr(<<"abc">>), JsonInt(181)} \cup {JsonInt(c.lon) : c \in Coordinates}

OsmIdValues ==
    {JsonMissing, JsonNull, JsonArray, JsonNonFinite, JsonNaN, JsonBool(TRUE),
     JsonStr(<<"abc">>), JsonStr(<<"2", "0", "1">>), JsonInt(-1)}
    \cup {JsonInt(i) : i \in 0..MaxOsmId}

OsmTypeValues ==
    {JsonMissing, JsonArray, JsonInt(5), JsonStr(<<"way">>), JsonStr(<<"W">>), JsonStr(<<"node">>)}

SearchResponses ==
    NominatimFailures
    \cup {Nominatim(shape, None, JsonMissing, JsonMissing, JsonMissing, JsonMissing) :
            shape \in {"not_a_list", "empty_list", "scalar_item"}}
    \cup {Nominatim("item", None, lat, lon, osm_id, JsonStr(<<"way">>)) :
            lat \in LatValues, lon \in LonValues, osm_id \in OsmIdValues}

ReverseResponses ==
    NominatimFailures
    \cup {Nominatim("not_a_dict", None, JsonMissing, JsonMissing, JsonMissing, JsonMissing)}
    \cup {Nominatim("dict", None, lat, lon, osm_id, osm_type) :
            lat \in LatValues, lon \in LonValues, osm_id \in OsmIdValues, osm_type \in OsmTypeValues}

\* What the OpenStreetMap API can answer: no answer, a JSON value that is not
\* an object, an object without a list of elements, or a list of elements
OsmTags(kind, name, start_date, architect, description) ==
    [kind |-> kind, name |-> name, start_date |-> start_date,
     architect |-> architect, description |-> description]

TagValues ==
    {NoTags,
     OsmTags("array", JsonMissing, JsonMissing, JsonMissing, JsonMissing),
     OsmTags("dict", JsonStr(<<"Alpha">>), JsonStr(<<"1", "9", "0", "2">>), JsonMissing, JsonMissing),
     OsmTags("dict", JsonStr(<<" ", "Beta">>), JsonStr(<<"c", " ", "1", "2", "0", "1", "9">>),
             JsonStr(<<"Rossi">>), JsonStr(<<" ">>))}

OsmItems ==
    {[shape |-> "scalar", type |-> "", id |-> 0, tags |-> NoTags]}
    \cup {[shape |-> "dict", type |-> type, id |-> id, tags |-> tags] :
            type \in {"way", "node", "relation"}, id \in 1..(MaxOsmId + 1), tags \in TagValues}

OsmResponse(shape, status, elements) == [shape |-> shape, status |-> status, elements |-> elements]

OsmResponses ==
    {OsmResponse("http_status", Some(503), <<>>), OsmResponse("http_error", None, <<>>),
     OsmResponse("invalid_json", None, <<>>), OsmResponse("not_a_dict", None, <<>>),
     OsmResponse("no_elements", None, <<>>), OsmResponse("elements", None, <<>>)}
    \cup {OsmResponse("elements", None, <<a>>) : a \in OsmItems}
    \cup {OsmResponse("elements", None, <<a, b>>) : a \in OsmItems, b \in OsmItems}

RequestedIds == 0..(MaxOsmId + 1)

\* The kinds of answer the services give the pipeline
GeocodeKinds ==
    {geocode(up).kind : up \in SearchResponses}
    \cup {reverse_geocode(c, up).kind : c \in Coordinates, up \in ReverseResponses}

\* fetch() is called without an id, or with an id
BuildingIdArguments == {None} \cup {Some(id) : id \in RequestedIds}

FetchKinds == {fetch(id, up).kind : id \in BuildingIdArguments, up \in OsmResponses}

\* What geocode and reverse_geocode answer the pipeline
GeocodeReplies ==
    {r \in {ServiceNone, ServiceCrash}
            \cup {ServiceResult(r) : r \in CoordinatesAndBuildingId}
            \cup {ServiceRaise(u) : u \in UpstreamStatuses} :
        r.kind \in GeocodeKinds}

Profiles ==
    {BuildingInfo(name, year_built, architect, location, history, None) :
        name \in {None, Some(<<"Test Building">>)},
        year_built \in {None, Some(1900)},
        architect \in {None, Some(<<"Rossi">>)},
        location \in {None} \cup {Some(c) : c \in Coordinates},
        history \in {None, Some(<<"Built in stone">>)}}

\* What fetch answers the pipeline
FetchReplies ==
    {r \in {FetchNone, FetchCrash}
            \cup {FetchProfile(b) : b \in Profiles}
            \cup {FetchRaise(u) : u \in UpstreamStatuses} :
        r.kind \in FetchKinds}

\* datetime.now() is the local wall clock: it is set back at the end of
\* daylight saving time and by clock adjustments, and it advances in steps of
\* the platform's resolution, so a reading can repeat an earlier one
Timestamps == 0..MaxClock

\* What the store meets in a request followed on its own: the reading of the
\* clock names the file and nothing else, and is taken to be 0
StoreReplies ==
    {StoreReply("stored", 0), StoreReply("mkdir_failed", 0), StoreReply("write_failed", 0)}

JsonYears ==
    {JsonNull, JsonInt(1850), JsonBool(TRUE), JsonNonFinite,
     JsonStr(<<"c", " ", "1", "9", "0", "2">>)}

JsonArchitects == {JsonNull, JsonStr(<<"Unknown">>), JsonStr(<<"Trezzini">>)}

JsonHistories == {JsonNull, JsonStr(<<"A", " ", "theatre">>)}

LlmReplies ==
    {LlmReply(kind, JsonNull, JsonNull, JsonNull) :
        kind \in {"raise_provider", "raise_other", "empty", "blank", "nonjson", "nonobject"}}
    \cup {LlmReply("object", y, a, h) : y \in JsonYears, a \in JsonArchitects, h \in JsonHistories}

----------------------------------------------------------------------------
(* The state machine *)

\* the request as it arrives: nothing decoded, resolved, called or returned
Arrived(which, facade, p) ==
    [impl |-> which, llm_facade |-> facade, payload |-> p, pc |-> "start",
     decoded_image |-> None, geocode_result |-> None, geocode_source |-> None,
     sources |-> <<>>, building |-> None, pre_enrich |-> None, calls |-> <<>>,
     outcome |-> Pending, response |-> None]

\* the collaborator operation the request is suspended at
Awaited(s) ==
    CASE s.pc = "geocode" -> "geocode"
      [] s.pc = "reverse" -> "reverse_geocode"
      [] s.pc = "fetch" -> "fetch"
      [] s.pc = "store" -> "store"
      [] s.pc = "enrich" -> "llm"
      [] OTHER -> "nothing"

\* the request resumes with the collaborator's answer and runs to its next
\* suspension point or to its end
Resumed(s, reply) ==
    CASE s.pc = "geocode" -> Geocoded(s, reply)
      [] s.pc = "reverse" -> Reversed(s, reply)
      [] s.pc = "fetch" -> Fetched(s, reply)
      [] s.pc = "store" -> Stored(s, reply)
      [] s.pc = "enrich" -> Enriched(s, reply)

\* what the collaborator met or answered in the logged call
Answer(call) == call.ret[Len(call.ret)]

\* The request run on its own with the answers of a log: at each suspension
\* point it is given the answer the log holds for the awaited operation, and
\* it stops at its end or where the log holds no answer for it.
RECURSIVE Alone(_, _)
Alone(s, log) ==
    LET given == {i \in DOMAIN log : log[i].op = Awaited(s)}
    IN  IF s.pc = "start" THEN Alone(Received(s), log)
        ELSE IF given = {} THEN s
        ELSE Alone(Resumed(s, Answer(log[CHOOSE i \in given : TRUE])), log)

Init ==
    /\ impl \in {"handler", "orch"}
    /\ llm_facade \in {"none", "configured"}
    /\ payload \in Requests
    /\ pc = "start"
    /\ decoded_image = None
    /\ geocode_result = None
    /\ geocode_source = None
    /\ sources = <<>>
    /\ building = None
    /\ pre_enrich = None
    /\ calls = <<>>
    /\ outcome = Pending
    /\ response = None
    /\ uploads = <<>>
    /\ in_flight = <<>>

\* the request arrives: validation and image decoding
Receive ==
    /\ pc = "start"
    /\ Becomes(Received(Current))
    /\ UNCHANGED <<uploads, in_flight>>

\* await geocoding_service.geocode(payload.address)
Geocode ==
    /\ pc = "geocode"
    /\ \E reply \in GeocodeReplies : Becomes(Geocoded(Current, reply))
    /\ UNCHANGED <<uploads, in_flight>>

\* await geocoding_service.reverse_geocode(payload.coordinates)
ReverseGeocode ==
    /\ pc = "reverse"
    /\ \E reply \in GeocodeReplies : Becomes(Reversed(Current, reply))
    /\ UNCHANGED <<uploads, in_flight>>

\* await building_data_service.fetch(building_id=osm_building_id)
FetchBuildingData ==
    /\ pc = "fetch"
    /\ \E reply \in FetchReplies : Becomes(Fetched(Current, reply))
    /\ UNCHANGED <<uploads, in_flight>>

\* _persist_image(...) / image_storage.store(...)
StoreImage ==
    /\ pc = "store"
    /\ \E reply \in StoreReplies :
          /\ Becomes(Stored(Current, reply))
          /\ uploads' = Written(uploads, Current, reply)
    /\ UNCHANGED in_flight

\* await llm_facade.query_building_info(...)
Enrich ==
    /\ pc = "enrich"
    /\ \E reply \in LlmReplies : Becomes(Enriched(Current, reply))
    /\ UNCHANGED <<uploads, in_flight>>

Next ==
    \/ Receive
    \/ Geocode
    \/ ReverseGeocode
    \/ FetchBuildingData
    \/ StoreImage
    \/ Enrich

Spec == Init /\ [][Next]_vars

----------------------------------------------------------------------------
(* The services called on their own, as the unit tests call them *)

\* the environment: the variable is unset, empty, blank, or holds a key
OpenApiKeyValues == {None, Some(<<>>), Some(<<" ">>), Some(<<"open-key">>), Some(<<" ", "open-key">>)}

GigaChatApiKeyValues == {None, Some(<<>>), Some(<<" ">>), Some(<<"giga-key">>)}

ServiceInit ==
    /\ impl = "orch"
    /\ llm_facade = "none"
    /\ payload = [address |-> None, coordinates |-> None, image_base64 |-> None]
    /\ pc = "service"
    /\ decoded_image = None
    /\ geocode_result = None
    /\ geocode_source = None
    /\ sources = <<>>
    /\ building = None
    /\ pre_enrich = None
    /\ calls = <<>>
    /\ outcome = Pending
    /\ response = None
    /\ uploads = <<>>
    /\ in_flight = <<>>

\* the call is logged with what it was given and what it returned
ServiceCalled(op, arg, ret) ==
    /\ Becomes([Called(Current, op, arg, <<ret>>) EXCEPT !.pc = "returned"])
    /\ UNCHANGED <<uploads, in_flight>>

\* await service.geocode(address)
GeocodingServiceGeocode ==
    /\ pc = "service"
    /\ \E up \in SearchResponses : ServiceCalled("geocode", <<up>>, geocode(up))

\* await service.reverse_geocode(coordinates)
GeocodingServiceReverseGeocode ==
    /\ pc = "service"
    /\ \E c \in Coordinates : \E up \in ReverseResponses :
          ServiceCalled("reverse_geocode", <<c, up>>, reverse_geocode(c, up))

\* await service.fetch(building_id=...)
BuildingDataServiceFetch ==
    /\ pc = "service"
    /\ \E id \in BuildingIdArguments : \E up \in OsmResponses :
          ServiceCalled("fetch", <<id, up, fetch_requests(id)>>, fetch(id, up))

\* try_get_llm_facade() with OPEN_API_KEY and GIGA_CHAT_API_KEY in the environment
TryGetLlmFacade ==
    /\ pc = "service"
    /\ \E open_env \in OpenApiKeyValues : \E giga_env \in GigaChatApiKeyValues :
          ServiceCalled("try_get_llm_facade", <<open_env, giga_env>>,
                        try_get_llm_facade(open_env, giga_env))

\* the values the "year" key of the provider's JSON object can hold
YearValues ==
    {JsonMissing, JsonNull, JsonArray, JsonBool(TRUE), JsonNonFinite, JsonNaN,
     JsonInt(0), JsonInt(1850), JsonInt(-5),
     JsonStr(<<>>), JsonStr(<<" ">>), JsonStr(<<"abc">>),
     JsonStr(<<"1", "9", "0", "2">>),
     JsonStr(<<"c", " ", "1", "9", "0", "2">>),
     JsonStr(<<" ", "2", "0", "1", "9", " ">>),
     JsonStr(<<"2", "1", "0", "0">>),
     JsonStr(<<"0", "9", "9", "9">>),
     JsonStr(<<"1", "2", "0", "1", "9">>),
     JsonStr(<<"1", "9", "0", "2", "-", "2", "0", "1", "9">>),
     JsonStr(<<"Unknown">>),
     JsonStr(<<"unknown", " ", "1", "9", "0", "2">>),
     JsonStr(<<"1", "9", "0", "2", " ", "neizvestno">>)}

\* _normalize_year(payload.get("year"))
NormalizeYear ==
    /\ pc = "service"
    /\ \E value \in YearValues : ServiceCalled("_normalize_year", <<value>>, normalize_year(value))

ServiceNext ==
    \/ GeocodingServiceGeocode
    \/ GeocodingServiceReverseGeocode
    \/ BuildingDataServiceFetch
    \/ TryGetLlmFacade
    \/ NormalizeYear

ServiceSpec == ServiceInit /\ [][ServiceNext]_vars

----------------------------------------------------------------------------
(* The gateway service's handler: gateway_service routers/buildings.py.  It *)
(* geocodes and fetches as the handler above does, and has no image and no  *)
(* enrichment stage.                                                        *)

GatewayRequiresLocationDetail == "Either address or coordinates must be provided"

\* BuildingInfoResponse(building=building, source=sources) after the stub label
GatewayReturn(s) ==
    LET labelled == IF s.sources = <<>> THEN <<StubLabel>> ELSE s.sources
    IN  [s EXCEPT !.sources = labelled, !.pc = "done", !.outcome = Ok,
                  !.response = Some(BuildingInfoResponse(Get(s.building), labelled))]

\* building_data_service.fetch has answered
GatewayFetched(s, reply) ==
    LET result == Get(s.geocode_result)
        t == Called(s, "fetch", <<result.building_id.osm_id>>, <<reply>>)
    IN  CASE reply.kind = "raise" -> Fails(t, Error(502, FetchFailedDetail, None))
          [] reply.kind = "crash" -> Fails(t, Crash("AttributeError"))
          [] reply.kind = "profile" ->
                GatewayReturn([t EXCEPT !.building = Some(BackfillLocation(Get(reply.profile), result.coordinates)),
                                        !.sources = Append(@, OsmApiLabel)])
          [] reply.kind = "none" ->
                GatewayReturn([t EXCEPT !.building = Some(BareProfile(result.coordinates))])

\* `if geocode_result is None:` 404; else `if geocode_source: sources.append(...)`
GatewayResolve(s) ==
    IF IsNone(s.geocode_result)
    THEN Fails(s, Error(404, NotFoundDetail, None))
    ELSE [s EXCEPT !.sources = IF ~IsNone(s.geocode_source) THEN Append(@, Get(s.geocode_source)) ELSE @,
                   !.pc = "gateway_fetch"]

GatewayAfterSearch(s) ==
    IF IsNone(s.geocode_result) /\ ~IsNone(s.payload.coordinates)
    THEN [s EXCEPT !.pc = "gateway_reverse"]
    ELSE GatewayResolve(s)

\* geocoding_service.geocode(payload.address) has answered
GatewayGeocoded(s, reply) ==
    LET t == Called(s, "geocode", <<s.payload.address>>, <<reply>>)
    IN  CASE reply.kind = "raise" -> Fails(t, Error(502, SearchFailedDetail, None))
          [] reply.kind = "crash" -> Fails(t, Crash("ValidationError"))
          [] reply.kind = "result" ->
                GatewayAfterSearch([t EXCEPT !.geocode_result = reply.result,
                                             !.geocode_source = Some(SearchLabel)])
          [] reply.kind = "none" -> GatewayAfterSearch(t)

\* geocoding_service.reverse_geocode(payload.coordinates) has answered
GatewayReversed(s, reply) ==
    LET t == Called(s, "reverse_geocode", <<s.payload.coordinates>>, <<reply>>)
    IN  CASE reply.kind = "raise" -> Fails(t, Error(502, ReverseFailedDetail, None))
          [] reply.kind = "crash" -> Fails(t, Crash("ValidationError"))
          [] reply.kind = "result" ->
                GatewayResolve([t EXCEPT !.geocode_result = reply.result,
                                         !.geocode_source = Some(ReverseLabel)])
          [] reply.kind = "none" -> GatewayResolve(t)

\* the code from the arrival of the request to its first collaborator call
GatewayReceived(s) ==
    IF ~Truthy(s.payload.address) /\ IsNone(s.payload.coordinates)
    THEN Fails(s, Error(400, GatewayRequiresLocationDetail, None))
    ELSE IF Truthy(s.payload.address) THEN [s EXCEPT !.pc = "gateway_geocode"]
    ELSE GatewayAfterSearch(s)

GatewayInit ==
    /\ impl = "gateway"
    /\ llm_facade = "none"
    /\ payload \in {p \in Requests : IsNone(p.image_base64)}
    /\ pc = "gateway"
    /\ decoded_image = None
    /\ geocode_result = None
    /\ geocode_source = None
    /\ sources = <<>>
    /\ building = None
    /\ pre_enrich = None
    /\ calls = <<>>
    /\ outcome = Pending
    /\ response = None
    /\ uploads = <<>>
    /\ in_flight = <<>>

GatewayReceive ==
    /\ pc = "gateway"
    /\ Becomes(GatewayReceived(Current))
    /\ UNCHANGED <<uploads, in_flight>>

GatewayGeocode ==
    /\ pc = "gateway_geocode"
    /\ \E reply \in GeocodeReplies : Becomes(GatewayGeocoded(Current, reply))
    /\ UNCHANGED <<uploads, in_flight>>

GatewayReverseGeocode ==
    /\ pc = "gateway_reverse"
    /\ \E reply \in GeocodeReplies : Becomes(GatewayReversed(Current, reply))
    /\ UNCHANGED <<uploads, in_flight>>

GatewayFetchBuildingData ==
    /\ pc = "gateway_fetch"
    /\ \E reply \in FetchReplies : Becomes(GatewayFetched(Current, reply))
    /\ UNCHANGED <<uploads, in_flight>>

PipelinesNext ==
    \/ Receive
    \/ Geocode
    \/ ReverseGeocode
    \/ FetchBuildingData
    \/ StoreImage
    \/ Enrich
    \/ GatewayReceive
    \/ GatewayGeocode
    \/ GatewayReverseGeocode
    \/ GatewayFetchBuildingData

\* every pipeline of the repository that answers POST /api/v1/building/info
PipelinesSpec == (Init \/ GatewayInit) /\ [][PipelinesNext]_vars

----------------------------------------------------------------------------
(* Requests in flight together in one process.  The handler and build() are *)
(* coroutines: a request runs until it awaits a collaborator, and another   *)
(* request may run before it resumes.  What a request holds (payload,       *)
(* decoded image, geocode result, sources, building) are local variables of *)
(* its own call; the requests share the process's configuration (impl,      *)
(* llm_facade), which is only read, and the upload directory.               *)

\* the number of requests in flight
MaxRequests == 2

\* two requests with the same photo: one by address, one by coordinates
ConcurrentRequests ==
    {[address |-> Some(<<"Main St">>), coordinates |-> None,
      image_base64 |-> Some(<<"Q", "U", "F", "B">>)],
     [address |-> None, coordinates |-> Some([lat |-> 0, lon |-> MaxCoord]),
      image_base64 |-> Some(<<"Q", "U", "F", "B">>)]}

ConcurrentGeocodeReplies ==
    {ServiceNone}
    \cup {ServiceResult(r) : r \in {r \in CoordinatesAndBuildingId : r.building_id.osm_id = MaxOsmId}}

ConcurrentFetchReplies == {FetchNone, FetchRaise(None)}

ConcurrentStoreReplies ==
    {StoreReply("stored", now) : now \in Timestamps} \cup {StoreReply("write_failed", 0)}

ConcurrentLlmReplies ==
    {LlmReply("raise_provider", JsonNull, JsonNull, JsonNull),
     LlmReply("object", JsonInt(1850), JsonNull, JsonNull)}

\* a variant: the source list is an attribute of the shared orchestrator
\* rather than a local variable of the call
Resume_SharedSources(frames, i, t) ==
    [j \in DOMAIN frames |-> IF j = i THEN t ELSE [frames[j] EXCEPT !.sources = t.sources]]

\* the request i runs on from its suspension point: only its own frame changes
Resume(frames, i, t) == [frames EXCEPT ![i] = t]

ConcurrentInit ==
    /\ impl \in {"handler", "orch"}
    /\ llm_facade \in {"none", "configured"}
    /\ payload = [address |-> None, coordinates |-> None, image_base64 |-> None]
    /\ pc = "concurrent"
    /\ decoded_image = None
    /\ geocode_result = None
    /\ geocode_source = None
    /\ sources = <<>>
    /\ building = None
    /\ pre_enrich = None
    /\ calls = <<>>
    /\ outcome = Pending
    /\ response = None
    /\ uploads = <<>>
    /\ in_flight \in [1..MaxRequests -> {Arrived(impl, llm_facade, p) : p \in ConcurrentRequests}]

\* the variables of the single request of Spec are not used
Apart ==
    UNCHANGED <<impl, llm_facade, payload, pc, decoded_image, geocode_result,
                geocode_source, sources, building, pre_enrich, calls, outcome, response>>

ConcurrentReceive ==
    \E i \in DOMAIN in_flight :
        /\ in_flight[i].pc = "start"
        /\ in_flight' = Resume(in_flight, i, Received(in_flight[i]))
        /\ UNCHANGED uploads
        /\ Apart

ConcurrentGeocode ==
    \E i \in DOMAIN in_flight :
        /\ in_flight[i].pc = "geocode"
        /\ \E reply \in ConcurrentGeocodeReplies :
              in_flight' = Resume(in_flight, i, Geocoded(in_flight[i], reply))
        /\ UNCHANGED uploads
        /\ Apart

ConcurrentReverseGeocode ==
    \E i \in DOMAIN in_flight :
        /\ in_flight[i].pc = "reverse"
        /\ \E reply \in ConcurrentGeocodeReplies :
              in_flight' = Resume(in_flight, i, Reversed(in_flight[i], reply))
        /\ UNCHANGED uploads
        /\ Apart

ConcurrentFetchBuildingData ==
    \E i \in DOMAIN in_flight :
        /\ in_flight[i].pc = "fetch"
        /\ \E reply \in ConcurrentFetchReplies :
              in_flight' = Resume(in_flight, i, Fetched(in_flight[i], reply))
        /\ UNCHANGED uploads
        /\ Apart

\* the store is synchronous: it runs from mkdir to write_bytes without
\* another request running in between
ConcurrentStoreImage ==
    \E i \in DOMAIN in_flight :
        /\ in_flight[i].pc = "store"
        /\ \E reply \in ConcurrentStoreReplies :
              /\ in_flight' = Resume(in_flight, i, Stored(in_flight[i], reply))
              /\ uploads' = Written(uploads, in_flight[i], reply)
        /\ Apart

ConcurrentEnrich ==
    \E i \in DOMAIN in_flight :
        /\ in_flight[i].pc = "enrich"
        /\ \E reply \in ConcurrentLlmReplies :
              in_flight' = Resume(in_flight, i, Enriched(in_flight[i], reply))
        /\ UNCHANGED uploads
        /\ Apart

ConcurrentNext ==
    \/ ConcurrentReceive
    \/ ConcurrentGeocode
    \/ ConcurrentReverseGeocode
    \/ ConcurrentFetchBuildingData
    \/ ConcurrentStoreImage
    \/ ConcurrentEnrich

ConcurrentSpec == ConcurrentInit /\ [][ConcurrentNext]_vars

----------------------------------------------------------------------------
(* What the properties below read from the log of collaborator calls *)

CallsTo(op) == {i \in DOMAIN calls : calls[i].op = op}

\* what the call at position i of the log returned
Returned(i) == calls[i].ret[1]

Finished == pc = "done"

Responded == pc = "done" /\ outcome.kind = "ok"

HasLabel(label) == \E i \in DOMAIN sources : sources[i] = label

SearchFound == \E i \in CallsTo("geocode") : Returned(i).kind = "result"

SearchNotFound == \E i \in CallsTo("geocode") : Returned(i).kind = "none"

\* the image payload is absent, empty, or decodes
ImageAccepted == ~Truthy(payload.image_base64) \/ DecodeImage(Get(payload.image_base64)).ok

----------------------------------------------------------------------------
(* C1: when the request carries an address and coordinates and the forward  *)
(* geocode call returns a result, reverse_geocode is never called and the   *)
(* first entry of the response's source list is the search label.           *)

C1_SearchPrecedence ==
    (Truthy(payload.address) /\ ~IsNone(payload.coordinates) /\ SearchFound) =>
        /\ CallsTo("reverse_geocode") = {}
        /\ Responded => (sources # <<>> /\ sources[1] = SearchLabel)

C1_Witness ==
    /\ Responded
    /\ Truthy(payload.address) /\ ~IsNone(payload.coordinates) /\ SearchFound
    /\ sources[1] = SearchLabel

----------------------------------------------------------------------------
(* C2: when no address is given, or the forward geocode returns not-found,  *)
(* and coordinates are supplied, reverse_geocode is called exactly once     *)
(* with the request's coordinates, geocode is not called when there is no   *)
(* address, and if reverse_geocode returns a result the first source entry  *)
(* is the reverse label and the fetch is called with exactly the osm_id     *)
(* that reverse_geocode returned.                                           *)

C2_FallbackCase ==
    /\ ~IsNone(payload.coordinates)
    /\ ~Truthy(payload.address) \/ SearchNotFound

C2_FallbackDone ==
    /\ Cardinality(CallsTo("reverse_geocode")) = 1
    /\ \A i \in CallsTo("reverse_geocode") :
          /\ calls[i].arg = <<payload.coordinates>>
          /\ Returned(i).kind = "result" =>
                /\ Responded => (sources # <<>> /\ sources[1] = ReverseLabel)
                /\ Cardinality(CallsTo("fetch")) = 1
                /\ \A j \in CallsTo("fetch") :
                      calls[j].arg = <<Get(Returned(i).result).building_id.osm_id>>
    /\ ~Truthy(payload.address) => CallsTo("geocode") = {}

\* the claim as stated: for every finished request of the fallback case
C2_Original == (Finished /\ C2_FallbackCase) => C2_FallbackDone

\* the claim as amended: for every finished request of the fallback case
\* whose image payload, if any, decodes
C2_Fallback == (Finished /\ C2_FallbackCase /\ ImageAccepted) => C2_FallbackDone

C2_Witness ==
    /\ Responded
    /\ Truthy(payload.address) /\ SearchNotFound /\ ~IsNone(payload.coordinates)
    /\ \E i \in CallsTo("reverse_geocode") :
          /\ Returned(i).kind = "result"
          /\ Get(Returned(i).result).building_id.osm_id = MaxOsmId
    /\ sources[1] = ReverseLabel

----------------------------------------------------------------------------
(* C3: if every attempted geocoding path returns not-found, the request     *)
(* fails with the not-found error (404, "could not resolve the provided     *)
(* location"); reverse_geocode is not called when no coordinates were       *)
(* supplied; the fetch, the image store and the LLM are never called.       *)

GeocodingCalls == CallsTo("geocode") \cup CallsTo("reverse_geocode")

C3_NotFound ==
    /\ IsNone(payload.coordinates) => CallsTo("reverse_geocode") = {}
    /\ (Finished /\ GeocodingCalls # {} /\ \A i \in GeocodingCalls : Returned(i).kind = "none") =>
          /\ outcome = Error(404, NotFoundDetail, None)
          /\ CallsTo("fetch") = {} /\ CallsTo("store") = {} /\ CallsTo("llm") = {}

C3_Witness ==
    /\ Finished
    /\ CallsTo("geocode") # {} /\ CallsTo("reverse_geocode") # {}
    /\ \A i \in GeocodingCalls : Returned(i).kind = "none"
    /\ outcome.status_code = 404

----------------------------------------------------------------------------
(* C4: a request with neither an address nor coordinates is rejected with   *)
(* the validation error (400, "requires either an address or coordinates"), *)
(* by the handler and by the orchestrator, and no collaborator is called.   *)

C4_MissingLocationRejected ==
    (Finished /\ ~Truthy(payload.address) /\ IsNone(payload.coordinates)) =>
        /\ outcome = Error(400, RequiresLocationDetail, None)
        /\ calls = <<>>

----------------------------------------------------------------------------
(* C5: a request whose image payload is not valid strict base64 (after an   *)
(* optional data:<mime>;base64, prefix) fails with the validation error     *)
(* (400, "cannot decode the provided base64 photo") before any geocoding,   *)
(* building-data, storage or LLM call, whatever address or coordinates      *)
(* accompany it.                                                            *)

\* the payload after trimming and after the optional prefix
C5_Body ==
    LET stripped == Strip(Get(payload.image_base64))
    IN  IF stripped # <<>> /\ Head(stripped) = "data:" THEN PartitionComma(stripped).encoded ELSE stripped

C5_InvalidBase64 == Truthy(payload.image_base64) /\ ~B64Accepts(C5_Body)

\* the claim as stated
C5_Original ==
    C5_InvalidBase64 =>
        /\ calls = <<>>
        /\ pc # "start" => (pc = "done" /\ outcome = Error(400, CannotDecodeDetail, None))

\* the claim as amended: always 400 and no call; the detail is "cannot
\* decode" when an address or coordinates are present, and in the
\* orchestrator always
C5_InvalidImageRejected ==
    C5_InvalidBase64 =>
        /\ calls = <<>>
        /\ pc # "start" =>
              /\ pc = "done"
              /\ outcome.kind = "error" /\ outcome.status_code = 400
              /\ (impl = "orch" \/ Truthy(payload.address) \/ ~IsNone(payload.coordinates)) =>
                    outcome = Error(400, CannotDecodeDetail, None)

C5_Witness ==
    /\ Finished /\ C5_InvalidBase64
    /\ Truthy(payload.address) /\ ~IsNone(payload.coordinates)
    /\ outcome = Error(400, CannotDecodeDetail, None)

----------------------------------------------------------------------------
(* C6: if the fetch returns a profile that has a location, the location of  *)
(* the profile is that location even when the geocoded coordinates differ;  *)
(* the geocoded coordinates are written only when the fetched profile has   *)
(* none; no later stage (image attach, LLM enrichment) changes location.    *)

\* the location the profile must have once reply has been fetched for the
\* geocoding result resolved
C6_Expected(reply, resolved) ==
    IF reply.kind = "profile" /\ ~IsNone(Get(reply.profile).location)
    THEN Get(reply.profile).location
    ELSE Some(resolved.coordinates)

C6_LocationPrecedence ==
    \A j \in CallsTo("fetch") : \A i \in GeocodingCalls :
        (Returned(i).kind = "result" /\ Returned(j).kind # "raise" /\ ~IsNone(building)) =>
            Get(building).location = C6_Expected(Returned(j), Get(Returned(i).result))

C6_Witness ==
    /\ Responded
    /\ HasLabel(LlmLabel) /\ CallsTo("store") # {}
    /\ \E j \in CallsTo("fetch") : \E i \in GeocodingCalls :
          /\ Returned(i).kind = "result" /\ Returned(j).kind = "profile"
          /\ ~IsNone(Get(Returned(j).profile).location)
          /\ Get(Returned(j).profile).location # Some(Get(Returned(i).result).coordinates)
          /\ Get(building).location = Get(Returned(j).profile).location

----------------------------------------------------------------------------
(* C7: if the profile after the building-data step has year_built,          *)
(* architect and history all non-null, the LLM is never invoked and         *)
(* "LLM Generated" never appears in the source list; the enrichment step is *)
(* entered only when at least one of the three is null.                     *)

C7_Complete(reply) ==
    /\ reply.kind = "profile"
    /\ ~IsNone(Get(reply.profile).year_built)
    /\ ~IsNone(Get(reply.profile).architect)
    /\ ~IsNone(Get(reply.profile).history)

C7_EnrichmentEntered == pc = "enrich" \/ ~IsNone(pre_enrich) \/ CallsTo("llm") # {}

C7_EnrichmentGating ==
    /\ \A j \in CallsTo("fetch") :
          C7_Complete(Returned(j)) => (~C7_EnrichmentEntered /\ ~HasLabel(LlmLabel))
    /\ C7_EnrichmentEntered =>
          \E j \in CallsTo("fetch") : Returned(j).kind # "raise" /\ ~C7_Complete(Returned(j))

C7_Witness ==
    /\ Responded /\ llm_facade = "configured"
    /\ \E j \in CallsTo("fetch") : C7_Complete(Returned(j))
    /\ CallsTo("llm") = {}

----------------------------------------------------------------------------
(* C8: enrichment only fills year_built, architect or history where the     *)
(* profile had null before it: a field that was non-null keeps its value    *)
(* whatever the LLM returned, and name, location and image_path are never   *)
(* changed by enrichment.                                                   *)

C8_FillsOnlyMissing ==
    (~IsNone(pre_enrich) /\ ~IsNone(building)) =>
        LET before == Get(pre_enrich)
            after == Get(building)
        IN  /\ \A f \in {"year_built", "architect", "history"} :
                  ~IsNone(before[f]) => after[f] = before[f]
            /\ after.name = before.name
            /\ after.location = before.location
            /\ after.image_path = before.image_path

C8_Witness ==
    /\ Responded /\ HasLabel(LlmLabel)
    /\ Get(pre_enrich).year_built = Some(1900) /\ Get(building).year_built = Some(1900)
    /\ ~IsNone(Get(building).image_path)
    /\ IsNone(Get(pre_enrich).architect) /\ ~IsNone(Get(building).architect)
    /\ \E k \in CallsTo("llm") : Returned(k).year = JsonInt(1850)

----------------------------------------------------------------------------
(* C9: no outcome of the LLM stage makes the request fail: whether the      *)
(* provider raises, or returns empty text, non-JSON text, a JSON value that *)
(* is not an object, or an object with arbitrary field values (non-finite   *)
(* or boolean years included), the request succeeds with the profile it had *)
(* before enrichment plus the fields legitimately filled.                   *)

C9_LlmNeverFails ==
    (Finished /\ CallsTo("llm") # {}) =>
        /\ outcome.kind = "ok"
        /\ ~IsNone(building)

----------------------------------------------------------------------------
(* C10: when no LLM provider is configured and the profile lacks one of     *)
(* year_built, architect, history, enrichment is skipped without a provider *)
(* call, the request succeeds, the profile returned is the profile before   *)
(* enrichment and "LLM Generated" is not in the source list, in the handler *)
(* and in the orchestrator.                                                 *)

C10_UnconfiguredSkips ==
    (Finished /\ llm_facade = "none" /\ ~IsNone(pre_enrich)) =>
        /\ CallsTo("llm") = {}
        /\ outcome.kind = "ok"
        /\ building = pre_enrich
        /\ ~HasLabel(LlmLabel)

----------------------------------------------------------------------------
(* C11: "LLM Generated" is in the source list of the response if and only   *)
(* if the LLM call succeeded and at least one of year_built, architect,     *)
(* history changed from null to a value; it is there at most once and is    *)
(* then the last entry.                                                     *)

EnrichedFields == {"year_built", "architect", "history"}

\* a call of the LLM returned a result
C11_LlmSucceeded == \E k \in CallsTo("llm") : query_building_info(Returned(k)).kind = "result"

\* a field that was null when enrichment was entered has a value in the response
C11_Changed ==
    /\ ~IsNone(pre_enrich)
    /\ \E f \in EnrichedFields : IsNone(Get(pre_enrich)[f]) /\ ~IsNone(Get(response).building[f])

C11_LlmLabel ==
    Responded =>
        LET source == Get(response).source
            at == {i \in DOMAIN source : source[i] = LlmLabel}
        IN  /\ (at # {}) <=> (C11_LlmSucceeded /\ C11_Changed)
            /\ Cardinality(at) <= 1
            /\ at # {} => Len(source) \in at

C11_Witness ==
    /\ Responded
    /\ C11_LlmSucceeded /\ C11_Changed
    /\ Len(Get(response).source) = 3 /\ Get(response).source[3] = LlmLabel

----------------------------------------------------------------------------
(* C12: every successful response has a non-empty source list in call       *)
(* order: exactly one geocoding label (search or reverse) first, then       *)
(* "OpenStreetMap API" if and only if the fetch returned a profile, then    *)
(* optionally "LLM Generated"; no label is repeated.                        *)

\* the labels the log of calls accounts for, before the optional LLM label
C12_Expected ==
    LET geocoding == IF SearchFound THEN SearchLabel ELSE ReverseLabel
        fetched == IF \E j \in CallsTo("fetch") : Returned(j).kind = "profile"
                   THEN <<OsmApiLabel>> ELSE <<>>
    IN  <<geocoding>> \o fetched

C12_SourceOrder ==
    Responded =>
        LET source == Get(response).source
        IN  /\ source # <<>>
            /\ source \in {C12_Expected, Append(C12_Expected, LlmLabel)}
            /\ source[1] = ReverseLabel =>
                  \E i \in CallsTo("reverse_geocode") : Returned(i).kind = "result"
            /\ \A i, j \in DOMAIN source : i # j => source[i] # source[j]

C12_Witness ==
    /\ Responded
    /\ Get(response).source = <<ReverseLabel, OsmApiLabel, LlmLabel>>

----------------------------------------------------------------------------
(* C13: when the fetch returns not-found, the pipeline continues with a     *)
(* bare profile whose only set field is location, equal to the geocoded     *)
(* coordinates, "OpenStreetMap API" is not added to the source list, and    *)
(* the request does not fail.                                               *)

C13_FetchNotFound == \E j \in CallsTo("fetch") : Returned(j).kind = "none"

\* the coordinates geocoding resolved
C13_Coordinates ==
    Get(Returned(CHOOSE i \in GeocodingCalls : Returned(i).kind = "result").result).coordinates

\* only location is set, and it is the geocoded coordinates
C13_Bare == BuildingInfo(None, None, None, Some(C13_Coordinates), None, None)

C13_StoreFailed ==
    outcome \in {Error(500, CannotPrepareDetail, None), Error(500, CannotStoreDetail, None)}

\* the profile the next stage is given is the bare profile: at the image
\* store, or, with at most the stored path attached, at the enrichment
C13_BareProfileContinues ==
    \/ pc = "store" /\ building = Some(C13_Bare)
    \/ C13_StoreFailed
    \/ /\ ~IsNone(pre_enrich)
       /\ [Get(pre_enrich) EXCEPT !.image_path = None] = C13_Bare
       /\ IsNone(Get(pre_enrich).image_path) <=> CallsTo("store") = {}

----------------------------------------------------------------------------
(* C14: an upstream failure raised by geocode, reverse_geocode or the fetch *)
(* makes the request fail with the upstream error (502) whose               *)
(* upstream_status is the status the failing collaborator reported (absent  *)
(* when none was known); no later stage runs after it.                      *)

C14_UpstreamFailure ==
    \A i \in CallsTo("geocode") \cup CallsTo("reverse_geocode") \cup CallsTo("fetch") :
        Returned(i).kind = "raise" =>
            /\ i = Len(calls)
            /\ pc = "done"
            /\ outcome.kind = "error" /\ outcome.status_code = 502
            /\ outcome.upstream_status = Returned(i).upstream_status

----------------------------------------------------------------------------
(* C15: for a request with a validly encoded photo whose location resolves, *)
(* the image store is called exactly once with the decoded bytes, the       *)
(* inferred extension, the resolved osm_id and the resolved coordinates,    *)
(* and the building object of the response carries an image_path field      *)
(* equal to the reference path the store returned.                          *)

C15_ImagePathReturned ==
    (Responded /\ ~IsNone(decoded_image)) =>
        LET image == Get(decoded_image)
            resolved == Get(Returned(CHOOSE i \in GeocodingCalls : Returned(i).kind = "result").result)
        IN  /\ Cardinality(CallsTo("store")) = 1
            /\ \A k \in CallsTo("store") :
                  /\ calls[k].arg = <<image.bytes, image.extension,
                                      resolved.building_id.osm_id, resolved.coordinates>>
                  /\ "image_path" \in DOMAIN Get(response).building
                  /\ Get(response).building.image_path = Some(Returned(k))

----------------------------------------------------------------------------
(* C16: every failure of a request surfaces as a structured error           *)
(* (validation 400, not-found 404, upstream 502, local resource 500) with a *)
(* human-readable detail: no collaborator lets a raw exception escape, also *)
(* when the upstream payload has out-of-range latitude or longitude, a      *)
(* negative osm_id, non-dict entries in `elements` or a non-dict `tags`.    *)

C16_StructuredFailures ==
    /\ \A i \in DOMAIN calls :
          calls[i].op \in {"geocode", "reverse_geocode", "fetch"} => Returned(i).kind # "crash"
    /\ (Finished /\ outcome.kind # "ok") =>
          /\ outcome.kind = "error"
          /\ outcome.status_code \in {400, 404, 500, 502}
          /\ outcome.detail # ""

----------------------------------------------------------------------------
(* C17: reverse_geocode returns not-found (None), never an error, whenever  *)
(* the osm_type of the upstream element is anything other than "way" or     *)
(* "W", whatever the other fields of the payload are.                       *)

C17_NotAWayIsNotFound ==
    \A i \in CallsTo("reverse_geocode") :
        LET up == calls[i].arg[2]
        IN  (up.shape = "dict" /\ up.osm_type \notin {JsonStr(<<"way">>), JsonStr(<<"W">>)}) =>
                Returned(i) = ServiceNone

----------------------------------------------------------------------------
(* C18: geocode and reverse_geocode fail with OpenStreetMapServiceError     *)
(* whenever the upstream result is missing, or has a non-numeric value for, *)
(* any of lat, lon or osm_id; they return a result only when all three are  *)
(* present and numeric, and return not-found only when the upstream reports *)
(* no match.                                                                *)

\* the value denotes a number (to Python a bool is an int)
C18_Numeric(v) ==
    \/ v.tag \in {"int", "bool", "nonfinite", "nan"}
    \/ v.tag = "str" /\ IsDigits(Strip(v.text))

C18_Malformed(up) == \E v \in {up.lat, up.lon, up.osm_id} : ~C18_Numeric(v)

C18_Search(up, ret) ==
    /\ (up.shape = "item" /\ C18_Malformed(up)) => ret.kind = "raise"
    /\ ret.kind = "result" => (up.shape = "item" /\ ~C18_Malformed(up))
    /\ ret.kind = "none" => up.shape \in {"not_a_list", "empty_list"}

\* for reverse_geocode the result is the element of a way (C17)
C18_Reverse(up, ret) ==
    LET way == up.shape = "dict" /\ up.osm_type \in {JsonStr(<<"way">>), JsonStr(<<"W">>)}
    IN  /\ (way /\ C18_Malformed(up)) => ret.kind = "raise"
        /\ ret.kind = "result" => (way /\ ~C18_Malformed(up))
        /\ ret.kind = "none" => (~way \/ up.osm_id.tag \in {"missing", "null"})

C18_MalformedRejected ==
    /\ \A i \in CallsTo("geocode") : C18_Search(calls[i].arg[1], Returned(i))
    /\ \A i \in CallsTo("reverse_geocode") : C18_Reverse(calls[i].arg[2], Returned(i))

----------------------------------------------------------------------------
(* C19: fetch builds its profile only from the element of the upstream      *)
(* payload whose id equals the requested building id and whose type is the  *)
(* expected element type; when the payload has no such element (for example *)
(* only a way with another id) fetch raises OpenStreetMapServiceError       *)
(* instead of returning the data of another element.                        *)

\* every element is an object whose tags, if any, are an object
C19_WellFormed(up) ==
    /\ up.shape = "elements"
    /\ \A k \in DOMAIN up.elements :
          up.elements[k].shape = "dict" /\ up.elements[k].tags.kind # "array"

C19_ExactElementOnly ==
    \A i \in CallsTo("fetch") :
        LET id == calls[i].arg[1]
            up == calls[i].arg[2]
            exact == {k \in DOMAIN up.elements :
                        up.elements[k].id = Get(id) /\ up.elements[k].type \in {"way", "node"}}
        IN  (~Skips(id) /\ C19_WellFormed(up)) =>
                /\ exact = {} => Returned(i).kind = "raise"
                /\ Returned(i).kind = "profile" =>
                      \E k \in exact : Get(Returned(i).profile) = ProfileOf(up.elements[k].tags)

----------------------------------------------------------------------------
(* C20: the LLM facade built from settings depends only on OPEN_API_KEY:    *)
(* when it is set the default provider is "openai" and the available        *)
(* providers are exactly ["openai"], whether or not GIGA_CHAT_API_KEY is    *)
(* set; when it is not set try_get_llm_facade returns None, also when only  *)
(* GIGA_CHAT_API_KEY is set.                                                *)

C20_OpenAiOnly ==
    \A i \in CallsTo("try_get_llm_facade") :
        LET open_env == calls[i].arg[1]
            is_set == ~IsNone(open_env) /\ Strip(Get(open_env)) # <<>>
            facade == Returned(i)
        IN  IF is_set
            THEN /\ facade.kind = "facade"
                 /\ facade.default_provider = "openai"
                 /\ facade.available_providers = <<"openai">>
            ELSE facade.kind = "none"

----------------------------------------------------------------------------
(* C21: within one request every collaborator operation (geocode,           *)
(* reverse_geocode, fetch, image store, LLM query) is attempted at most     *)
(* once, and a call that failed is the last call of the request: nothing is *)
(* called again after a failure.                                            *)

Operations == {"geocode", "reverse_geocode", "fetch", "store", "llm"}

\* the call at position i of the log raised
C21_Raised(i) ==
    CASE calls[i].op \in {"geocode", "reverse_geocode", "fetch"} -> Returned(i).kind \in {"raise", "crash"}
      [] calls[i].op = "store" -> outcome.detail \in {CannotPrepareDetail, CannotStoreDetail}
      [] OTHER -> FALSE

C21_AtMostOnce ==
    /\ \A i \in DOMAIN calls : calls[i].op \in Operations
    /\ \A op \in Operations : Cardinality(CallsTo(op)) <= 1
    /\ \A i \in DOMAIN calls : C21_Raised(i) => i = Len(calls) /\ Finished /\ outcome.kind # "ok"

\* the fallback call failed after the search found nothing: two calls, no third
C21_Witness ==
    /\ Finished
    /\ Len(calls) = 2
    /\ calls[1].op = "geocode"
    /\ calls[2].op = "reverse_geocode"
    /\ Returned(2).kind = "raise"
    /\ outcome.status_code = 502

----------------------------------------------------------------------------
(* C22: within one request the stages run in the order image decode,        *)
(* forward geocode, reverse geocode, fetch, image store, LLM enrichment.    *)
(* The log holds a call with what it returned, so its order is the order in *)
(* which the calls completed: the image is decoded before the first call,   *)
(* the operations appear in that order, the fetch is given the osm_id of    *)
(* the result the geocoding call just before it returned, and a store or    *)
(* LLM call follows a fetch that returned a profile or not-found.           *)

C22_Rank(op) ==
    CASE op = "geocode" -> 1
      [] op = "reverse_geocode" -> 2
      [] op = "fetch" -> 3
      [] op = "store" -> 4
      [] op = "llm" -> 5

C22_Decoded ==
    /\ pc # "start"
    /\ ImageAccepted
    /\ decoded_image = IF Truthy(payload.image_base64)
                       THEN LET image == DecodeImage(Get(payload.image_base64))
                            IN  Some([bytes |-> image.bytes, extension |-> image.extension])
                       ELSE None

C22_StageOrder ==
    /\ calls # <<>> => C22_Decoded
    /\ \A i, j \in DOMAIN calls : i < j => C22_Rank(calls[i].op) < C22_Rank(calls[j].op)
    /\ \A i \in CallsTo("fetch") :
          /\ i > 1
          /\ calls[i - 1].op \in {"geocode", "reverse_geocode"}
          /\ Returned(i - 1).kind = "result"
          /\ calls[i].arg = <<Get(Returned(i - 1).result).building_id.osm_id>>
    /\ \A i \in CallsTo("store") \cup CallsTo("llm") :
          \E j \in CallsTo("fetch") : j < i /\ Returned(j).kind \in {"profile", "none"}

\* a request that went through every stage: five calls
C22_Witness ==
    /\ Responded
    /\ Len(calls) = 5
    /\ calls[5].op = "llm"
    /\ calls[4].op = "store"
    /\ calls[3].op = "fetch"

----------------------------------------------------------------------------
(* C27: the label "Gateway Stub" is in the source list of no response of    *)
(* the handler, the orchestrator or the gateway service's handler: a        *)
(* response is returned only after a geocoding call returned a result, and  *)
(* the label of that call is then the first entry of the list.              *)

C27_GeocodingSucceeded ==
    \E i \in CallsTo("geocode") \cup CallsTo("reverse_geocode") : Returned(i).kind = "result"

C27_NoStubLabel ==
    Responded =>
        /\ C27_GeocodingSucceeded
        /\ Get(response).source # <<>>
        /\ Get(response).source[1] \in {SearchLabel, ReverseLabel}
        /\ \A i \in DOMAIN Get(response).source : Get(response).source[i] # StubLabel

\* the handler's response with the shortest list: the fetch found no profile
\* and nothing was enriched, so the geocoding label is the only entry
C27_Witness ==
    /\ Responded
    /\ impl = "handler"
    /\ Len(Get(response).source) = 1
    /\ \E i \in CallsTo("fetch") : Returned(i).kind = "none"

----------------------------------------------------------------------------
(* C28: a request that ends in a validation, not-found or upstream error    *)
(* (400, 404, 502) has made no store call; a store call is made only with a *)
(* decoded image, after a geocoding call returned a result and the fetch    *)
(* returned a profile or not-found; and once the image is stored the store  *)
(* is not called again and the profile keeps the stored path whatever the   *)
(* LLM does.                                                                *)

C28_FailedEarly ==
    Finished /\ outcome.kind = "error" /\ outcome.status_code \in {400, 404, 502}

C28_StoreRaised == outcome.detail \in {CannotPrepareDetail, CannotStoreDetail}

C28_StoreOnlyAfterSuccess ==
    /\ C28_FailedEarly => CallsTo("store") = {}
    /\ Cardinality(CallsTo("store")) <= 1
    /\ \A i \in CallsTo("store") :
          /\ ~IsNone(decoded_image)
          /\ calls[i].arg[1] = Get(decoded_image).bytes
          /\ \E j \in 1..(i - 1) :
                calls[j].op \in {"geocode", "reverse_geocode"} /\ Returned(j).kind = "result"
          /\ calls[i - 1].op = "fetch"
          /\ Returned(i - 1).kind \in {"profile", "none"}
          /\ (~C28_StoreRaised /\ ~IsNone(building)) =>
                Get(building).image_path = Some(Returned(i))
          /\ \A j \in (i + 1)..Len(calls) : calls[j].op = "llm"

\* the image was stored and the LLM call after it raised: the response is
\* returned and the profile holds the stored path
C28_Witness ==
    /\ Responded
    /\ Len(calls) >= 2
    /\ calls[Len(calls)].op = "llm"
    /\ Returned(Len(calls)).kind = "raise_provider"
    /\ calls[Len(calls) - 1].op = "store"
    /\ Get(building).image_path = Some(Returned(Len(calls) - 1))

----------------------------------------------------------------------------
(* C30: an image payload with no content is never persisted: no store call  *)
(* is given zero-length bytes, and the image_base64 values that are empty   *)
(* after trimming (the empty string, a whitespace-only string, a data:      *)
(* prefix followed by nothing) are all handled the same way, either as no   *)
(* image or as a validation error.                                          *)

\* the image payload is empty after trimming
C30_Empty(image_base64) ==
    /\ ~IsNone(image_base64)
    /\ LET stripped == Strip(Get(image_base64))
       IN  \/ stripped = <<>>
           \/ Head(stripped) = "data:" /\ PartitionComma(stripped).encoded = <<>>

C30_EmptyImages == {image \in Images : C30_Empty(image)}

\* what the first stage makes of the request with this image payload
C30_Handling(image_base64) ==
    LET t == Received(Arrived(impl, llm_facade, [payload EXCEPT !.image_base64 = image_base64]))
    IN  IF t.outcome.detail = CannotDecodeDetail THEN "validation error"
        ELSE IF IsNone(t.decoded_image) THEN "no image"
        ELSE "image"

C30_EmptyImageNeverStored ==
    /\ \A i \in CallsTo("store") : calls[i].arg[1] # <<>>
    /\ (pc # "start" /\ C30_Empty(payload.image_base64)) =>
          /\ C30_Handling(payload.image_base64) \in {"no image", "validation error"}
          /\ \A other \in C30_EmptyImages : C30_Handling(other) = C30_Handling(payload.image_base64)

----------------------------------------------------------------------------
(* C25: _normalize_year never raises; a numeric year (integer or float)     *)
(* yields its integer value; a string yields the first four-digit match of  *)
(* 1[0-9]{3} or 20[0-9]{2}, unless it is blank or contains "unknown" or     *)
(* "neizvestno", when it yields absent; every other value yields absent.    *)

C25_IsYear(t) ==
    /\ Len(t) = 4
    /\ \A k \in 1..4 : t[k] \in Digits
    /\ t[1] = "1" \/ (t[1] = "2" /\ t[2] = "0")

\* the leftmost four-digit year of the text, if it has one
RECURSIVE C25_FirstYear(_)
C25_FirstYear(t) ==
    IF Len(t) < 4 THEN None
    ELSE IF C25_IsYear(SubSeq(t, 1, 4))
    THEN Some(DigitValue(t[1]) * 1000 + DigitValue(t[2]) * 100 + DigitValue(t[3]) * 10 + DigitValue(t[4]))
    ELSE C25_FirstYear(Tail(t))

C25_Sentinel(t) ==
    \/ \A k \in DOMAIN t : t[k] = " "
    \/ \E k \in DOMAIN t : t[k] \in {"unknown", "Unknown", "neizvestno"}

C25_Numeric(value) == value.tag \in {"int", "nonfinite", "nan"}

C25_YearNormalized ==
    \A i \in CallsTo("_normalize_year") :
        LET value == calls[i].arg[1]
            ret == Returned(i)
        IN  /\ ~ret.raises
            /\ value.tag = "int" => ret.value = Some(value.num)
            /\ C25_Numeric(value) => ~IsNone(ret.value)
            /\ value.tag = "str" =>
                  ret.value = IF C25_Sentinel(value.text) THEN None ELSE C25_FirstYear(value.text)
            /\ value.tag \in {"null", "missing", "array"} => IsNone(ret.value)
            /\ (value.tag = "str" /\ ~IsNone(ret.value)) => Get(ret.value) \in 1000..2099

----------------------------------------------------------------------------
(* C26: BuildingDataService.fetch makes no upstream request and returns     *)
(* not-found exactly when it is called without a building id; called with   *)
(* an id the schema allows (osm_id >= 0, 0 included) it makes exactly one   *)
(* upstream request, for that id.                                           *)

C26_OneRequestPerId ==
    \A i \in CallsTo("fetch") :
        LET id == calls[i].arg[1]
            requested == calls[i].arg[3]
        IN  /\ IsNone(id) => requested = <<>> /\ Returned(i) = FetchNone
            /\ ~IsNone(id) => requested = <<Get(id)>>

----------------------------------------------------------------------------
(* C29: the handler and the orchestrator are observationally equivalent:    *)
(* given the same request, the same LLM configuration and the same          *)
(* collaborator answers, the other implementation ends too, has made the    *)
(* same calls with the same arguments in the same order, and has produced   *)
(* the same response (profile and source list) or an error of the same kind *)
(* and status code.                                                         *)

C29_Other == IF impl = "handler" THEN "orch" ELSE "handler"

\* the other implementation, given this request and the answers of this log
C29_Twin == Alone(Arrived(C29_Other, llm_facade, payload), calls)

C29_SameCalls(twin) ==
    /\ Len(twin.calls) = Len(calls)
    /\ \A i \in DOMAIN calls :
          twin.calls[i].op = calls[i].op /\ twin.calls[i].arg = calls[i].arg

C29_Equivalent ==
    Finished =>
        /\ C29_Twin.pc = "done"
        /\ C29_SameCalls(C29_Twin)
        /\ C29_Twin.outcome.kind = outcome.kind
        /\ C29_Twin.outcome.status_code = outcome.status_code
        /\ C29_Twin.response = response

----------------------------------------------------------------------------
(* C23: requests in flight together are isolated: whatever the order in     *)
(* which they suspend and resume, each request is, at every moment, exactly *)
(* where it would be had it run alone with the collaborator answers it was  *)
(* given: same decoded image, profile, source list, calls, and response or  *)
(* error.                                                                   *)

----------------------------------------------------------------------------
(* C24: any two store calls of one process return distinct paths, also for  *)
(* identical bytes, extension, building id and coordinates and for          *)
(* interleaved requests: no file of the upload directory is written twice.  *)

C24_DistinctPaths ==
    \A i, j \in DOMAIN uploads : i # j => uploads[i].path # uploads[j].path

====
